---- MODULE Spec2Model ----
(***************************************************************************)
(* State machine of the interaction-net editor's graph model: the React    *)
(* state of App (src/src/App.tsx, first App component) and the wire        *)
(* gesture handler of CanvasArea (src/src/components/CanvasArea.tsx).      *)
(*                                                                         *)
(* Encoding of the program's identifiers:                                  *)
(*   instance ids  `inst_<ms>_<hex>`   positive integers, never reused     *)
(*   'BOUNDARY'                         the integer BOUNDARY               *)
(*   wire ids      `wire_<ms>_<hex>`   positive integers, never reused     *)
(*   node port indices (numbers)        naturals 0, 1, ...                 *)
(*   boundary port ids `bport_...`      negative integers (strings in the  *)
(*                                      program: typeof is not 'number')   *)
(*   atomic definition ids              positive integers                  *)
(*   composite definition ids `def_..`  negative integers                  *)
(*   targetLength                       "null" or "number" (every distance *)
(*                                      is the one value "number")         *)
(* An optional value (T | null) is a sequence of length 0 or 1.            *)
(***************************************************************************)
EXTENDS Integers, Sequences, FiniteSets, TLC

\* ---------------------------------------------------------------- bounds
MaxAtomic == 1
MaxInst == 2
MaxWire == 2
MaxBPort == 1
MaxDef == 1
MaxAngle == 1

\* ------------------------------------------------------ program constants
BOUNDARY == 0

\* port layouts (principalPorts, nonPrincipalPorts) an atomic node form submits
PortShapes == { <<1, 0>>, <<1, 1>> }

Angles == 1..MaxAngle

VARIABLES
  title,                  \* useState<string>
  atomicNodes,            \* useState<AtomicNodeDefinition[]>
  canvasNodes,            \* useState<CanvasNodeInstance[]>
  wires,                  \* useState<WireConnection[]>
  drawingWire,            \* useState<DrawingWireState | null>
  isFinishingWire,        \* useRef(false)
  isBoundaryActive,       \* useState<boolean>
  boundaryPorts,          \* useState<BoundaryPort[]>
  definitions,            \* useState<DefinitionDefinition[]>
  isDefinitionModalOpen,  \* useState<boolean>
  definitionCandidate,    \* useState<{nodes, wires, ports} | null>
  nodePhysicsData,        \* useRef(Map): the instance ids that have a pose
  nextAtomic, nextInst, nextWire, nextBPort, nextDef,  \* id generators
  lastOp                  \* history: the handler that ran last and its outcome

graph == <<atomicNodes, canvasNodes, wires, isBoundaryActive, boundaryPorts,
           definitions>>
gesture == <<drawingWire, isFinishingWire>>
modal == <<isDefinitionModalOpen, definitionCandidate>>
ids == <<nextAtomic, nextInst, nextWire, nextBPort, nextDef>>
vars == <<title, graph, gesture, modal, nodePhysicsData, ids, lastOp>>

\* ---------------------------------------------------------------- helpers
Null == << >>

\* a value of the history variable: handler, its argument (0 when it has none
\* or it is not recorded) and its outcome
Op(op, arg, note) == [op |-> op, arg |-> arg, note |-> note]

Some(v) == << v >>

\* Array.prototype.some
SeqSome(s, Test(_)) == \E i \in DOMAIN s : Test(s[i])

\* Array.prototype.findIndex, 1-based; 0 when nothing matches
FindIndex(s, Test(_)) ==
  IF \E i \in DOMAIN s : Test(s[i])
  THEN CHOOSE i \in DOMAIN s : Test(s[i]) /\ \A j \in 1..(i - 1) : ~Test(s[j])
  ELSE 0

\* typeof p === 'number'
IsNumber(p) == p >= 0

\* the wire w has (n, p) as its source or as its target
Touches(w, n, p) ==
  \/ (w.sourceNodeId = n /\ w.sourcePortIndex = p)
  \/ (w.targetNodeId = n /\ w.targetPortIndex = p)

\* wires.some(w => source is (n, p) || target is (n, p))
IsOccupied(ws, n, p) == SeqSome(ws, LAMBDA w : Touches(w, n, p))

AtomicDefOf(defId) ==
  FindIndex(atomicNodes, LAMBDA d : d.id = defId)

DefinitionOf(defId) ==
  FindIndex(definitions, LAMBDA d : d.id = defId)

InstanceOf(instanceId) ==
  FindIndex(canvasNodes, LAMBDA n : n.instanceId = instanceId)

TotalPorts(d) == d.principalPorts + d.nonPrincipalPorts

\* ports the canvas renders: CanvasArea draws a PhysicsNode only when the
\* instance's definition is found, with one Port per index; Boundary draws
\* one Port per boundary port while the boundary is active
RenderedPortCount(n) ==
  IF n.isDefinitionInstance
  THEN IF DefinitionOf(n.definitionId) = 0 THEN 0
       ELSE Len(definitions[DefinitionOf(n.definitionId)].externalPorts)
  ELSE IF AtomicDefOf(n.definitionId) = 0 THEN 0
       ELSE TotalPorts(atomicNodes[AtomicDefOf(n.definitionId)])

RenderedPorts ==
  UNION { { <<canvasNodes[i].instanceId, p>> :
              p \in 0..(RenderedPortCount(canvasNodes[i]) - 1) } :
          i \in DOMAIN canvasNodes }
  \cup
  (IF isBoundaryActive
   THEN { <<BOUNDARY, boundaryPorts[i].id>> : i \in DOMAIN boundaryPorts }
   ELSE {})

\* ------------------------------------------------------------------ Init
Init ==
  /\ title = "Untitled"
  /\ atomicNodes = << >>
  /\ canvasNodes = << >>
  /\ wires = << >>
  /\ drawingWire = Null
  /\ isFinishingWire = FALSE
  /\ isBoundaryActive = FALSE
  /\ boundaryPorts = << >>
  /\ definitions = << >>
  /\ isDefinitionModalOpen = FALSE
  /\ definitionCandidate = Null
  /\ nodePhysicsData = {}
  /\ nextAtomic = 1
  /\ nextInst = 1
  /\ nextWire = 1
  /\ nextBPort = 1
  /\ nextDef = 1
  /\ lastOp = Op("init", 0, "")

\* --------------------------------------------------- atomic node library
\* LeftSidebar.handleAtomicFormSubmit + App.addAtomicNode
addAtomicNode(shape) ==
  /\ nextAtomic <= MaxAtomic
  /\ atomicNodes' = Append(atomicNodes,
        [id |-> nextAtomic, principalPorts |-> shape[1],
         nonPrincipalPorts |-> shape[2]])
  /\ nextAtomic' = nextAtomic + 1
  /\ lastOp' = Op("addAtomicNode", 0, "")
  /\ UNCHANGED <<title, canvasNodes, wires, isBoundaryActive, boundaryPorts,
                 definitions, gesture, modal, nodePhysicsData,
                 nextInst, nextWire, nextBPort, nextDef>>

\* canvasNodes after deleteAtomicNode
deleteAtomicNodeCanvas(definitionIdToDelete) ==
  SelectSeq(canvasNodes, LAMBDA n : n.definitionId # definitionIdToDelete)

\* wires after deleteAtomicNode: the handler never calls setWires
deleteAtomicNodeWires(definitionIdToDelete) == wires

deleteAtomicNode(definitionIdToDelete) ==
  /\ atomicNodes' =
       SelectSeq(atomicNodes, LAMBDA d : d.id # definitionIdToDelete)
  /\ canvasNodes' = deleteAtomicNodeCanvas(definitionIdToDelete)
  /\ wires' = deleteAtomicNodeWires(definitionIdToDelete)
  /\ lastOp' = Op("deleteAtomicNode", 0, "")
  /\ UNCHANGED <<isBoundaryActive, boundaryPorts, definitions, gesture,
                 modal, nodePhysicsData, title, ids>>

\* ------------------------------------------------------------ canvas nodes
\* isDefinition is the 'definition:' prefix of the dragged id
addNodeToCanvas(isDefinition, actualId) ==
  /\ IF (isDefinition /\ DefinitionOf(actualId) = 0)
        \/ (~isDefinition /\ AtomicDefOf(actualId) = 0)
     THEN /\ lastOp' = Op("addNodeToCanvas", 0, "unknown")
          /\ UNCHANGED <<canvasNodes, nextInst>>
     ELSE /\ nextInst <= MaxInst
          /\ canvasNodes' = Append(canvasNodes,
                [instanceId |-> nextInst, definitionId |-> actualId,
                 isDefinitionInstance |-> isDefinition])
          /\ nextInst' = nextInst + 1
          /\ lastOp' = Op("addNodeToCanvas", 0, "")
  /\ UNCHANGED <<atomicNodes, wires, isBoundaryActive, boundaryPorts,
                 definitions, gesture, modal, nodePhysicsData,
                 title, nextAtomic, nextWire, nextBPort, nextDef>>

\* canvasNodes after deleteCanvasNode
deleteCanvasNodeNodes(ns, instanceIdToDelete) ==
  SelectSeq(ns, LAMBDA n : n.instanceId # instanceIdToDelete)

\* a deleteCanvasNode that filters the wires on their source only
deleteCanvasNodeWiresSourceOnly(ws, instanceIdToDelete) ==
  SelectSeq(ws, LAMBDA w : w.sourceNodeId # instanceIdToDelete)

\* wires after deleteCanvasNode
deleteCanvasNodeWires(ws, instanceIdToDelete) ==
  SelectSeq(ws, LAMBDA w : w.sourceNodeId # instanceIdToDelete
                           /\ w.targetNodeId # instanceIdToDelete)

deleteCanvasNode(instanceIdToDelete) ==
  /\ canvasNodes' = deleteCanvasNodeNodes(canvasNodes, instanceIdToDelete)
  /\ wires' = deleteCanvasNodeWires(wires, instanceIdToDelete)
  /\ lastOp' = Op("deleteCanvasNode", instanceIdToDelete,
                  IF deleteCanvasNodeWires(wires, instanceIdToDelete) # wires
                  THEN "cascade" ELSE "")
  /\ UNCHANGED <<atomicNodes, isBoundaryActive, boundaryPorts, definitions,
                 gesture, modal, nodePhysicsData, title, ids>>

\* one render frame: every mounted PhysicsNode's useFrame callback calls
\* App.updateNodePhysicsData with its pose (rendered is the set of instance
\* ids the canvas draws)
updateNodePhysicsData(rendered) ==
  /\ ~(rendered \subseteq nodePhysicsData)
  /\ nodePhysicsData' = nodePhysicsData \cup rendered
  /\ lastOp' = Op("updateNodePhysicsData", 0, "")
  /\ UNCHANGED <<graph, gesture, modal, title, ids>>

\* ------------------------------------------------------------------ wires
\* pointer down on a rendered port: CanvasArea.handlePortPointerDown
startWire(sourceNodeId, sourcePortIndex) ==
  /\ <<sourceNodeId, sourcePortIndex>> \in RenderedPorts
  /\ drawingWire' = Some([sourceNodeId |-> sourceNodeId,
                          sourcePortIndex |-> sourcePortIndex])
  /\ lastOp' = Op("startWire", 0, "")
  /\ UNCHANGED <<graph, isFinishingWire, modal, nodePhysicsData, title, ids>>

\* initialLength of finishWire: a distance only for node-to-node wires whose
\* two nodes are atomic instances with a recorded pose
HasAtomicDef(instanceId) ==
  /\ InstanceOf(instanceId) # 0
  /\ AtomicDefOf(canvasNodes[InstanceOf(instanceId)].definitionId) # 0

initialLength(sourceNodeId, targetNodeId) ==
  IF /\ sourceNodeId # BOUNDARY
     /\ targetNodeId # BOUNDARY
     /\ HasAtomicDef(sourceNodeId)
     /\ HasAtomicDef(targetNodeId)
     /\ sourceNodeId \in nodePhysicsData
     /\ targetNodeId \in nodePhysicsData
  THEN "number"
  ELSE "null"

\* the self-connection test of finishWire
isSelfConnection(sourceNodeId, sourcePortIndex, targetNodeId, targetPortIndex) ==
  sourceNodeId = targetNodeId /\ sourcePortIndex = targetPortIndex

\* an occupancy test that looks at the source side of the wires only
isPortOccupiedAsSource(ws, nodeId, portIndex) ==
  SeqSome(ws, LAMBDA w : w.sourceNodeId = nodeId /\ w.sourcePortIndex = portIndex)

\* the occupancy test of finishWire for one endpoint
isPortOccupied(ws, nodeId, portIndex) == IsOccupied(ws, nodeId, portIndex)

\* finishWire without its latch
finishWireUnlatched(ws, dw, latch, target) ==
  IF dw = Null
  THEN [wires |-> ws, drawingWire |-> Null, isFinishingWire |-> FALSE,
        used |-> 0, outcome |-> "nodrawing"]
  ELSE IF target = Null
  THEN [wires |-> ws, drawingWire |-> Null, isFinishingWire |-> TRUE,
        used |-> 0, outcome |-> "cancelled"]
  ELSE IF isSelfConnection(dw[1].sourceNodeId, dw[1].sourcePortIndex,
                           target[1].nodeId, target[1].portIndex)
  THEN [wires |-> ws, drawingWire |-> Null, isFinishingWire |-> TRUE,
        used |-> 0, outcome |-> "self"]
  ELSE IF isPortOccupied(ws, dw[1].sourceNodeId, dw[1].sourcePortIndex)
  THEN [wires |-> ws, drawingWire |-> Null, isFinishingWire |-> TRUE,
        used |-> 0, outcome |-> "sourceOccupied"]
  ELSE IF isPortOccupied(ws, target[1].nodeId, target[1].portIndex)
  THEN [wires |-> ws, drawingWire |-> Null, isFinishingWire |-> TRUE,
        used |-> 0, outcome |-> "targetOccupied"]
  ELSE [wires |-> Append(ws,
          [id |-> nextWire,
           sourceNodeId |-> dw[1].sourceNodeId,
           sourcePortIndex |-> dw[1].sourcePortIndex,
           targetNodeId |-> target[1].nodeId,
           targetPortIndex |-> target[1].portIndex,
           targetLength |-> initialLength(dw[1].sourceNodeId, target[1].nodeId)]),
        drawingWire |-> Null, isFinishingWire |-> TRUE,
        used |-> 1, outcome |-> "created"]

\* App.finishWire as a function of the state it is called in: ws and dw are
\* the wires and the drawing state at the call, target is Null or
\* <<[nodeId, portIndex]>>.  The result holds the wires, the drawing state,
\* the latch, the number of wire ids used and the outcome.
finishWire(ws, dw, latch, target) ==
  IF latch
  THEN [wires |-> ws, drawingWire |-> dw, isFinishingWire |-> latch,
        used |-> 0, outcome |-> "latched"]
  ELSE IF dw = Null
  THEN [wires |-> ws, drawingWire |-> Null, isFinishingWire |-> FALSE,
        used |-> 0, outcome |-> "nodrawing"]
  ELSE IF target = Null
  THEN [wires |-> ws, drawingWire |-> Null, isFinishingWire |-> TRUE,
        used |-> 0, outcome |-> "cancelled"]
  ELSE IF isSelfConnection(dw[1].sourceNodeId, dw[1].sourcePortIndex,
                           target[1].nodeId, target[1].portIndex)
  THEN [wires |-> ws, drawingWire |-> Null, isFinishingWire |-> TRUE,
        used |-> 0, outcome |-> "self"]
  ELSE IF isPortOccupied(ws, dw[1].sourceNodeId, dw[1].sourcePortIndex)
  THEN [wires |-> ws, drawingWire |-> Null, isFinishingWire |-> TRUE,
        used |-> 0, outcome |-> "sourceOccupied"]
  ELSE IF isPortOccupied(ws, target[1].nodeId, target[1].portIndex)
  THEN [wires |-> ws, drawingWire |-> Null, isFinishingWire |-> TRUE,
        used |-> 0, outcome |-> "targetOccupied"]
  ELSE [wires |-> Append(ws,
          [id |-> nextWire,
           sourceNodeId |-> dw[1].sourceNodeId,
           sourcePortIndex |-> dw[1].sourcePortIndex,
           targetNodeId |-> target[1].nodeId,
           targetPortIndex |-> target[1].portIndex,
           targetLength |-> initialLength(dw[1].sourceNodeId, target[1].nodeId)]),
        drawingWire |-> Null, isFinishingWire |-> TRUE,
        used |-> 1, outcome |-> "created"]

\* a BOUNDARY branch without the check of the target boundary port
mouseUpOnBoundaryUnchecked(portId) ==
  IF isPortOccupied(wires, drawingWire[1].sourceNodeId,
                    drawingWire[1].sourcePortIndex)
  THEN [wires |-> wires, drawingWire |-> drawingWire,
        isFinishingWire |-> isFinishingWire,
        used |-> 0, outcome |-> "sourceOccupied"]
  ELSE LET added == Append(wires,
             [id |-> nextWire,
              sourceNodeId |-> drawingWire[1].sourceNodeId,
              sourcePortIndex |-> drawingWire[1].sourcePortIndex,
              targetNodeId |-> BOUNDARY,
              targetPortIndex |-> portId,
              targetLength |-> "null"])
           r == finishWire(added, drawingWire, isFinishingWire, Null)
       IN [wires |-> r.wires, drawingWire |-> r.drawingWire,
           isFinishingWire |-> r.isFinishingWire,
           used |-> 1, outcome |-> "created"]

\* the BOUNDARY branch of CanvasArea.handleGlobalMouseUp: the wire is added
\* by CanvasArea itself, then finishWire(null, null) clears the drawing state
mouseUpOnBoundary(portId) ==
  IF isPortOccupied(wires, drawingWire[1].sourceNodeId,
                    drawingWire[1].sourcePortIndex)
  THEN [wires |-> wires, drawingWire |-> drawingWire,
        isFinishingWire |-> isFinishingWire,
        used |-> 0, outcome |-> "sourceOccupied"]
  ELSE IF isPortOccupied(wires, BOUNDARY, portId)
  THEN [wires |-> wires, drawingWire |-> drawingWire,
        isFinishingWire |-> isFinishingWire,
        used |-> 0, outcome |-> "targetOccupied"]
  ELSE LET added == Append(wires,
             [id |-> nextWire,
              sourceNodeId |-> drawingWire[1].sourceNodeId,
              sourcePortIndex |-> drawingWire[1].sourcePortIndex,
              targetNodeId |-> BOUNDARY,
              targetPortIndex |-> portId,
              targetLength |-> "null"])
           r == finishWire(added, drawingWire, isFinishingWire, Null)
       IN [wires |-> r.wires, drawingWire |-> r.drawingWire,
           isFinishingWire |-> r.isFinishingWire,
           used |-> 1, outcome |-> "created"]

\* CanvasArea.handleGlobalMouseUp with wireTargetRef.current = target
mouseUpResult(target) ==
  IF target # Null /\ target[1].nodeId = BOUNDARY
     /\ ~IsNumber(target[1].portIndex)
  THEN mouseUpOnBoundary(target[1].portIndex)
  ELSE IF target # Null /\ target[1].nodeId # BOUNDARY
          /\ IsNumber(target[1].portIndex)
  THEN finishWire(wires, drawingWire, isFinishingWire, target)
  ELSE finishWire(wires, drawingWire, isFinishingWire, Null)

\* wireTargetRef.current is set by pointer-enter on a rendered port
MouseUpTargets ==
  {Null} \cup { Some([nodeId |-> t[1], portIndex |-> t[2]]) : t \in RenderedPorts }

handleGlobalMouseUp(target) ==
  /\ drawingWire # Null
  /\ LET r == mouseUpResult(target)
     IN /\ nextWire + r.used <= MaxWire + 1
        /\ wires' = r.wires
        /\ drawingWire' = r.drawingWire
        /\ isFinishingWire' = r.isFinishingWire
        /\ nextWire' = nextWire + r.used
        /\ lastOp' = Op(IF target # Null /\ target[1].nodeId = BOUNDARY
                        THEN "mouseUpBoundary" ELSE "mouseUp", 0, r.outcome)
  /\ UNCHANGED <<atomicNodes, canvasNodes, isBoundaryActive, boundaryPorts,
                 definitions, modal, nodePhysicsData,
                 title, nextAtomic, nextInst, nextBPort, nextDef>>

\* the setTimeout(..., 0) callback scheduled by finishWire
releaseFinishingWire ==
  /\ isFinishingWire
  /\ isFinishingWire' = FALSE
  /\ lastOp' = Op("releaseFinishingWire", 0, "")
  /\ UNCHANGED <<graph, drawingWire, modal, nodePhysicsData, title, ids>>

\* a deleteWire that drops the oldest wire when the id is not found
deleteWireWiresOrOldest(ws, wireIdToDelete) ==
  IF \E i \in DOMAIN ws : ws[i].id = wireIdToDelete
  THEN SelectSeq(ws, LAMBDA w : w.id # wireIdToDelete)
  ELSE IF ws = << >> THEN ws ELSE Tail(ws)

\* wires after deleteWire
deleteWireWires(ws, wireIdToDelete) ==
  SelectSeq(ws, LAMBDA w : w.id # wireIdToDelete)

deleteWire(wireIdToDelete) ==
  /\ wires' = deleteWireWires(wires, wireIdToDelete)
  /\ lastOp' = Op("deleteWire", 0, "")
  /\ UNCHANGED <<atomicNodes, canvasNodes, isBoundaryActive, boundaryPorts,
                 definitions, gesture, modal, nodePhysicsData, title, ids>>

SeqMap(s, F(_)) == [i \in DOMAIN s |-> F(s[i])]

handleUpdateWireLength(wireId) ==
  /\ SeqSome(wires, LAMBDA w : w.id = wireId /\ w.targetLength # "number")
  /\ wires' = SeqMap(wires, LAMBDA w :
                 IF w.id = wireId
                 THEN [w EXCEPT !.targetLength = "number"]
                 ELSE w)
  /\ lastOp' = Op("handleUpdateWireLength", 0, "")
  /\ UNCHANGED <<atomicNodes, canvasNodes, isBoundaryActive, boundaryPorts,
                 definitions, gesture, modal, nodePhysicsData, title, ids>>

\* ------------------------------------------------------- boundary session
\* toggleBoundaryWires without the target half of its filter
toggleBoundaryWiresSourceOnly(ws, ports) ==
  SelectSeq(ws, LAMBDA w :
    ~(w.sourceNodeId = BOUNDARY
      /\ SeqSome(ports, LAMBDA p : p.id = w.sourcePortIndex)))

\* wires after toggleBoundary closes the session
toggleBoundaryWires(ws, ports) ==
  SelectSeq(ws, LAMBDA w :
    /\ ~(w.sourceNodeId = BOUNDARY
         /\ SeqSome(ports, LAMBDA p : p.id = w.sourcePortIndex))
    /\ ~(w.targetNodeId = BOUNDARY
         /\ SeqSome(ports, LAMBDA p : p.id = w.targetPortIndex)))

toggleBoundary ==
  /\ isBoundaryActive' = ~isBoundaryActive
  /\ IF isBoundaryActive
     THEN /\ wires' = toggleBoundaryWires(wires, boundaryPorts)
          /\ boundaryPorts' = << >>
     ELSE UNCHANGED <<wires, boundaryPorts>>
  /\ lastOp' = Op("toggleBoundary", 0, "")
  /\ UNCHANGED <<atomicNodes, canvasNodes, definitions, gesture, modal,
                 nodePhysicsData, title, ids>>

\* CanvasArea.handleBoundaryClick + App.addBoundaryPort
addBoundaryPort(angle) ==
  /\ isBoundaryActive
  /\ nextBPort <= MaxBPort
  /\ boundaryPorts' = Append(boundaryPorts, [id |-> 0 - nextBPort, angle |-> angle])
  /\ nextBPort' = nextBPort + 1
  /\ lastOp' = Op("addBoundaryPort", 0, "")
  /\ UNCHANGED <<atomicNodes, canvasNodes, wires, isBoundaryActive,
                 definitions, gesture, modal, nodePhysicsData,
                 title, nextAtomic, nextInst, nextWire, nextDef>>

\* deleteBoundaryPortWires without the target half of its filter
deleteBoundaryPortWiresSourceOnly(ws, portIdToDelete) ==
  SelectSeq(ws, LAMBDA w :
    ~(w.sourceNodeId = BOUNDARY /\ w.sourcePortIndex = portIdToDelete))

\* wires after deleteBoundaryPort
deleteBoundaryPortWires(ws, portIdToDelete) ==
  SelectSeq(ws, LAMBDA w :
    /\ ~(w.sourceNodeId = BOUNDARY /\ w.sourcePortIndex = portIdToDelete)
    /\ ~(w.targetNodeId = BOUNDARY /\ w.targetPortIndex = portIdToDelete))

deleteBoundaryPort(portIdToDelete) ==
  /\ boundaryPorts' = SelectSeq(boundaryPorts, LAMBDA p : p.id # portIdToDelete)
  /\ wires' = deleteBoundaryPortWires(wires, portIdToDelete)
  /\ lastOp' = Op("deleteBoundaryPort", 0, "")
  /\ UNCHANGED <<atomicNodes, canvasNodes, isBoundaryActive, definitions,
                 gesture, modal, nodePhysicsData, title, ids>>

\* ------------------------------------------------------------ definitions
\* the dangling-port check of handleAddDefinitionClick: every port index of
\* every canvas node whose atomic definition is found, and every boundary
\* port, must be an endpoint of some wire
danglingPorts ==
  { e \in
      UNION { { <<canvasNodes[i].instanceId, p>> :
                  p \in 0..(TotalPorts(atomicNodes[
                               AtomicDefOf(canvasNodes[i].definitionId)]) - 1) } :
              i \in { j \in DOMAIN canvasNodes :
                        AtomicDefOf(canvasNodes[j].definitionId) # 0 } }
      \cup { <<BOUNDARY, boundaryPorts[i].id>> : i \in DOMAIN boundaryPorts } :
    ~IsOccupied(wires, e[1], e[2]) }

\* handleAddDefinitionClick without its test for dangling ports
handleAddDefinitionClickAnyWiring ==
  /\ IF ~isBoundaryActive
     THEN /\ lastOp' = Op("addDefinitionClick", 0, "refused")
          /\ UNCHANGED modal
     ELSE IF Len(boundaryPorts) = 0
     THEN /\ lastOp' = Op("addDefinitionClick", 0, "refused")
          /\ UNCHANGED modal
     ELSE /\ definitionCandidate' =
               Some([nodes |-> canvasNodes, wires |-> wires,
                     ports |-> boundaryPorts])
          /\ isDefinitionModalOpen' = TRUE
          /\ lastOp' = Op("addDefinitionClick", 0, "ok")
  /\ UNCHANGED <<graph, gesture, nodePhysicsData, title, ids>>

\* handleAddDefinitionClick without its test of boundaryPorts.length
handleAddDefinitionClickAnyBoundary ==
  /\ IF ~isBoundaryActive
     THEN /\ lastOp' = Op("addDefinitionClick", 0, "refused")
          /\ UNCHANGED modal
     ELSE IF danglingPorts # {}
     THEN /\ lastOp' = Op("addDefinitionClick", 0, "refused")
          /\ UNCHANGED modal
     ELSE /\ definitionCandidate' =
               Some([nodes |-> canvasNodes, wires |-> wires,
                     ports |-> boundaryPorts])
          /\ isDefinitionModalOpen' = TRUE
          /\ lastOp' = Op("addDefinitionClick", 0, "ok")
  /\ UNCHANGED <<graph, gesture, nodePhysicsData, title, ids>>

handleAddDefinitionClick ==
  /\ IF ~isBoundaryActive
     THEN /\ lastOp' = Op("addDefinitionClick", 0, "refused")
          /\ UNCHANGED modal
     ELSE IF Len(boundaryPorts) = 0
     THEN /\ lastOp' = Op("addDefinitionClick", 0, "refused")
          /\ UNCHANGED modal
     ELSE IF danglingPorts # {}
     THEN /\ lastOp' = Op("addDefinitionClick", 0, "refused")
          /\ UNCHANGED modal
     ELSE /\ definitionCandidate' =
               Some([nodes |-> canvasNodes, wires |-> wires,
                     ports |-> boundaryPorts])
          /\ isDefinitionModalOpen' = TRUE
          /\ lastOp' = Op("addDefinitionClick", 0, "ok")
  /\ UNCHANGED <<graph, gesture, nodePhysicsData, title, ids>>

closeDefinitionModal ==
  /\ isDefinitionModalOpen
  /\ isDefinitionModalOpen' = FALSE
  /\ definitionCandidate' = Null
  /\ lastOp' = Op("closeDefinitionModal", 0, "")
  /\ UNCHANGED <<graph, gesture, nodePhysicsData, title, ids>>

\* externalIsPrincipal with the port index compared to the number of all ports
externalIsPrincipalAnyPort(nodes, internalWires, boundaryPort) ==
  LET c == FindIndex(internalWires,
             LAMBDA w : Touches(w, BOUNDARY, boundaryPort.id))
  IN IF c = 0 THEN FALSE
     ELSE LET w == internalWires[c]
              internalNodeId == IF w.sourceNodeId = BOUNDARY
                                THEN w.targetNodeId ELSE w.sourceNodeId
              internalPortIndex == IF w.sourceNodeId = BOUNDARY
                                   THEN w.targetPortIndex ELSE w.sourcePortIndex
              n == FindIndex(nodes, LAMBDA x : x.instanceId = internalNodeId)
          IN IF internalNodeId # BOUNDARY /\ IsNumber(internalPortIndex)
                /\ n # 0 /\ AtomicDefOf(nodes[n].definitionId) # 0
             THEN internalPortIndex <
                    TotalPorts(atomicNodes[AtomicDefOf(nodes[n].definitionId)])
             ELSE FALSE

\* isPrincipal of the external port made from boundaryPort, as addDefinition
\* computes it from the candidate's nodes and wires
externalIsPrincipal(nodes, internalWires, boundaryPort) ==
  LET c == FindIndex(internalWires,
             LAMBDA w : Touches(w, BOUNDARY, boundaryPort.id))
  IN IF c = 0 THEN FALSE
     ELSE LET w == internalWires[c]
              internalNodeId == IF w.sourceNodeId = BOUNDARY
                                THEN w.targetNodeId ELSE w.sourceNodeId
              internalPortIndex == IF w.sourceNodeId = BOUNDARY
                                   THEN w.targetPortIndex ELSE w.sourcePortIndex
              n == FindIndex(nodes, LAMBDA x : x.instanceId = internalNodeId)
          IN IF internalNodeId # BOUNDARY /\ IsNumber(internalPortIndex)
                /\ n # 0 /\ AtomicDefOf(nodes[n].definitionId) # 0
             THEN internalPortIndex <
                    atomicNodes[AtomicDefOf(nodes[n].definitionId)].principalPorts
             ELSE FALSE

\* Array.prototype.sort((a, b) => a.angle - b.angle): stable, ascending
RECURSIVE sortByAngle(_)
sortByAngle(s) ==
  IF Len(s) <= 1 THEN s
  ELSE LET front == sortByAngle(SubSeq(s, 1, Len(s) - 1))
           e == s[Len(s)]
           k == Cardinality({ i \in DOMAIN front : front[i].angle <= e.angle })
       IN SubSeq(front, 1, k) \o << e >> \o SubSeq(front, k + 1, Len(front))

\* the externalPorts of the new definition
makeExternalPorts(cand) ==
  sortByAngle(SeqMap(cand.ports, LAMBDA bp :
    [id |-> bp.id, angle |-> bp.angle,
     isPrincipal |-> externalIsPrincipal(cand.nodes, cand.wires, bp)]))

\* addDefinitionWires without the boundary-port half of its filter
addDefinitionWiresNodesOnly(ws, cand) ==
  SelectSeq(ws, LAMBDA w :
    /\ ~SeqSome(cand.nodes, LAMBDA n : n.instanceId = w.sourceNodeId)
    /\ ~SeqSome(cand.nodes, LAMBDA n : n.instanceId = w.targetNodeId))

\* wires after addDefinition: those touching a candidate node or a candidate
\* boundary port are dropped
addDefinitionWires(ws, cand) ==
  SelectSeq(ws, LAMBDA w :
    /\ ~SeqSome(cand.nodes, LAMBDA n : n.instanceId = w.sourceNodeId)
    /\ ~(w.sourceNodeId = BOUNDARY
         /\ SeqSome(cand.ports, LAMBDA p : p.id = w.sourcePortIndex))
    /\ ~SeqSome(cand.nodes, LAMBDA n : n.instanceId = w.targetNodeId)
    /\ ~(w.targetNodeId = BOUNDARY
         /\ SeqSome(cand.ports, LAMBDA p : p.id = w.targetPortIndex)))

\* DefinitionForm submit -> App.addDefinition (the form is shown only while
\* the modal is open)
addDefinition ==
  /\ isDefinitionModalOpen
  /\ IF definitionCandidate = Null
     THEN /\ lastOp' = Op("addDefinition", 0, "noCandidate")
          /\ UNCHANGED <<graph, modal, nextDef>>
     ELSE LET cand == definitionCandidate[1]
          IN /\ nextDef <= MaxDef
             /\ definitions' = Append(definitions,
                   [id |-> 0 - nextDef,
                    internalNodes |-> cand.nodes,
                    internalWires |-> cand.wires,
                    externalPorts |-> makeExternalPorts(cand)])
             /\ nextDef' = nextDef + 1
             /\ isBoundaryActive' = FALSE
             /\ boundaryPorts' = << >>
             /\ wires' = addDefinitionWires(wires, cand)
             /\ canvasNodes' = << >>
             /\ definitionCandidate' = Null
             /\ isDefinitionModalOpen' = FALSE
             /\ lastOp' = Op("addDefinition", 0, "")
             /\ UNCHANGED atomicNodes
  /\ UNCHANGED <<gesture, nodePhysicsData, title, nextAtomic, nextInst, nextWire,
                 nextBPort>>

deleteDefinition(definitionIdToDelete) ==
  /\ definitions' =
       SelectSeq(definitions, LAMBDA d : d.id # definitionIdToDelete)
  /\ lastOp' = Op("deleteDefinition", 0, "")
  /\ UNCHANGED <<atomicNodes, canvasNodes, wires, isBoundaryActive,
                 boundaryPorts, gesture, modal, nodePhysicsData, title, ids>>

\* -------------------------------------------------------------- expansion
\* internalInstanceIdMap of expandDefinitionInstance: internal node j of the
\* definition is given the fresh id nextInst + j - 1 before the handler looks
\* for its atomic definition, so skipped nodes are in the map too
mapHas(def, id) == SeqSome(def.internalNodes, LAMBDA n : n.instanceId = id)

mapGet(def, id) ==
  nextInst - 1 +
    (CHOOSE j \in DOMAIN def.internalNodes :
       /\ def.internalNodes[j].instanceId = id
       /\ \A k \in DOMAIN def.internalNodes :
            def.internalNodes[k].instanceId = id => k <= j)

\* newNodes: one atomic instance per internal node whose atomic definition
\* is still in the library
expandNewNodes(def) ==
  SelectSeq([j \in DOMAIN def.internalNodes |->
               [instanceId |-> nextInst + j - 1,
                definitionId |-> def.internalNodes[j].definitionId,
                isDefinitionInstance |-> FALSE]],
            LAMBDA n : AtomicDefOf(n.definitionId) # 0)

\* wiresToRemove.splice(wiresToRemove.indexOf(id), 1) when id is present
removeFirst(s, id) ==
  LET k == FindIndex(s, LAMBDA x : x = id)
  IN IF k = 0 THEN s ELSE SubSeq(s, 1, k - 1) \o SubSeq(s, k + 1, Len(s))

\* if (!wiresToRemove.includes(id)) wiresToRemove.push(id)
pushOnce(s, id) == IF SeqSome(s, LAMBDA x : x = id) THEN s ELSE Append(s, id)

\* the far end of wire w seen from instance inst
farNode(w, inst) == IF w.sourceNodeId = inst THEN w.targetNodeId ELSE w.sourceNodeId

farPort(w, inst) ==
  IF w.sourceNodeId = inst THEN w.targetPortIndex ELSE w.sourcePortIndex

\* the endpoint an external wire on the external port must be moved to: Null,
\* or the new instance id and the port index of the internal node port the
\* port's boundary wire leads to
rewireTarget(def, externalPort) ==
  LET iw == FindIndex(def.internalWires,
              LAMBDA w : Touches(w, BOUNDARY, externalPort.id))
  IN IF iw = 0 THEN Null
     ELSE LET w == def.internalWires[iw]
              internalNodeOriginalId ==
                IF w.sourceNodeId = BOUNDARY THEN w.targetNodeId ELSE w.sourceNodeId
              internalPortIndex ==
                IF w.sourceNodeId = BOUNDARY
                THEN w.targetPortIndex ELSE w.sourcePortIndex
          IN IF mapHas(def, internalNodeOriginalId) /\ IsNumber(internalPortIndex)
             THEN Some([id |-> mapGet(def, internalNodeOriginalId),
                        port |-> internalPortIndex])
             ELSE Null

\* one iteration of externalWires.forEach: acc holds wiresToRemove,
\* wiresToModify and newWires
expandExternalWire(def, inst, externalWires, acc, ew) ==
  LET connectedPortIndex ==
        IF ew.sourceNodeId = inst THEN ew.sourcePortIndex ELSE ew.targetPortIndex
  IN IF ~IsNumber(connectedPortIndex) THEN acc
     ELSE IF connectedPortIndex + 1 > Len(def.externalPorts) THEN acc
     ELSE
       LET externalPort == def.externalPorts[connectedPortIndex + 1]
           iw == FindIndex(def.internalWires,
                   LAMBDA w : Touches(w, BOUNDARY, externalPort.id))
       IN IF iw # 0
          THEN LET t == rewireTarget(def, externalPort)
               IN IF t # Null
                  THEN [acc EXCEPT
                          !.remove = removeFirst(@, ew.id),
                          !.modify = Append(@,
                             [originalWireId |-> ew.id,
                              side |-> IF ew.sourceNodeId = inst
                                       THEN "source" ELSE "target",
                              newId |-> t[1].id,
                              newPort |-> t[1].port])]
                  ELSE [acc EXCEPT !.remove = pushOnce(@, ew.id)]
          ELSE
            LET bw == FindIndex(def.internalWires, LAMBDA w :
                        /\ w.sourceNodeId = BOUNDARY
                        /\ w.targetNodeId = BOUNDARY
                        /\ (w.sourcePortIndex = externalPort.id
                            \/ w.targetPortIndex = externalPort.id))
            IN IF bw = 0
               THEN [acc EXCEPT !.remove = pushOnce(@, ew.id)]
               ELSE
                 LET boundaryWire == def.internalWires[bw]
                     otherBoundaryPortId ==
                       IF boundaryWire.sourcePortIndex = externalPort.id
                       THEN boundaryWire.targetPortIndex
                       ELSE boundaryWire.sourcePortIndex
                     otherExternalPortIndex ==
                       FindIndex(def.externalPorts,
                                 LAMBDA p : p.id = otherBoundaryPortId) - 1
                     ow == FindIndex(externalWires,
                             LAMBDA w : Touches(w, inst, otherExternalPortIndex))
                 IN IF otherExternalPortIndex < 0 THEN acc
                    ELSE IF ow # 0 /\ ew.id < externalWires[ow].id
                    THEN [acc EXCEPT
                            !.new = Append(@,
                              [id |-> nextWire + Len(acc.new),
                               sourceNodeId |-> farNode(ew, inst),
                               sourcePortIndex |-> farPort(ew, inst),
                               targetNodeId |-> farNode(externalWires[ow], inst),
                               targetPortIndex |-> farPort(externalWires[ow], inst),
                               targetLength |-> "null"]),
                            !.remove = pushOnce(pushOnce(@, ew.id),
                                                externalWires[ow].id)]
                    ELSE acc

RECURSIVE expandExternalWires(_, _, _, _, _)
expandExternalWires(def, inst, externalWires, k, acc) ==
  IF k > Len(externalWires) THEN acc
  ELSE expandExternalWires(def, inst, externalWires, k + 1,
         expandExternalWire(def, inst, externalWires, acc, externalWires[k]))

\* the new wires for the definition's node-to-node internal wires; the first
\* of them gets the wire id firstId
expandInternalWires(def, firstId) ==
  LET mapped == SelectSeq(def.internalWires, LAMBDA w :
                  /\ w.sourceNodeId # BOUNDARY
                  /\ w.targetNodeId # BOUNDARY
                  /\ mapHas(def, w.sourceNodeId)
                  /\ mapHas(def, w.targetNodeId))
      created == expandNewNodes(def)
      isNew(id) == SeqSome(created, LAMBDA n : n.instanceId = id)
  IN [i \in DOMAIN mapped |->
        [id |-> firstId + i - 1,
         sourceNodeId |-> mapGet(def, mapped[i].sourceNodeId),
         sourcePortIndex |-> mapped[i].sourcePortIndex,
         targetNodeId |-> mapGet(def, mapped[i].targetNodeId),
         targetPortIndex |-> mapped[i].targetPortIndex,
         targetLength |->
           IF /\ isNew(mapGet(def, mapped[i].sourceNodeId))
              /\ isNew(mapGet(def, mapped[i].targetNodeId))
              /\ IsNumber(mapped[i].sourcePortIndex)
              /\ IsNumber(mapped[i].targetPortIndex)
           THEN "number" ELSE "null"]]

\* a modification that rebuilds the wire and forgets its targetLength
expandModifyWireRebuilt(modify, w) ==
  LET m == FindIndex(modify, LAMBDA x : x.originalWireId = w.id)
  IN IF m = 0 THEN w
     ELSE IF modify[m].side = "source"
     THEN [w EXCEPT !.sourceNodeId = modify[m].newId,
                    !.sourcePortIndex = modify[m].newPort,
                    !.targetLength = "null"]
     ELSE [w EXCEPT !.targetNodeId = modify[m].newId,
                    !.targetPortIndex = modify[m].newPort,
                    !.targetLength = "null"]

\* step 2 of the setWires updater: apply the first modification recorded
\* for the wire
expandModifyWire(modify, w) ==
  LET m == FindIndex(modify, LAMBDA x : x.originalWireId = w.id)
  IN IF m = 0 THEN w
     ELSE IF modify[m].side = "source"
     THEN [w EXCEPT !.sourceNodeId = modify[m].newId,
                    !.sourcePortIndex = modify[m].newPort]
     ELSE [w EXCEPT !.targetNodeId = modify[m].newId,
                    !.targetPortIndex = modify[m].newPort]

\* everything expandDefinitionInstance computes before its state updates
expandPlan(def, inst) ==
  LET externalWires == SelectSeq(wires, LAMBDA w :
                         w.sourceNodeId = inst \/ w.targetNodeId = inst)
      acc == expandExternalWires(def, inst, externalWires, 1,
               [remove |-> SeqMap(def.internalWires, LAMBDA w : w.id),
                modify |-> << >>, new |-> << >>])
  IN [newNodes |-> expandNewNodes(def),
      remove |-> acc.remove,
      modify |-> acc.modify,
      newWires |-> acc.new \o expandInternalWires(def, nextWire + Len(acc.new))]

\* wires after expandDefinitionInstance
expandWires(ws, plan) ==
  SeqMap(SelectSeq(ws, LAMBDA w : ~SeqSome(plan.remove, LAMBDA x : x = w.id)),
         LAMBDA w : expandModifyWire(plan.modify, w))
  \o plan.newWires

\* canvasNodes after expandDefinitionInstance
expandNodes(ns, inst, plan) ==
  SelectSeq(ns, LAMBDA n : n.instanceId # inst) \o plan.newNodes

\* expandDefinitionInstance without its test of the recorded pose
expandDefinitionInstanceAnyPose(instanceIdToExpand) ==
  LET i == InstanceOf(instanceIdToExpand)
  IN IF i = 0 \/ ~canvasNodes[i].isDefinitionInstance
     THEN /\ lastOp' = Op("expand", instanceIdToExpand, "notDefinitionInstance")
          /\ UNCHANGED <<graph, gesture, modal, nodePhysicsData, title, ids>>
     ELSE IF DefinitionOf(canvasNodes[i].definitionId) = 0
     THEN /\ lastOp' = Op("expand", instanceIdToExpand, "unknownDefinition")
          /\ UNCHANGED <<graph, gesture, modal, nodePhysicsData, title, ids>>
     ELSE LET def == definitions[DefinitionOf(canvasNodes[i].definitionId)]
              plan == expandPlan(def, instanceIdToExpand)
          IN /\ nextInst + Len(def.internalNodes) <= MaxInst + 1
             /\ nextWire + Len(plan.newWires) <= MaxWire + 1
             /\ canvasNodes' = expandNodes(canvasNodes, instanceIdToExpand, plan)
             /\ wires' = expandWires(wires, plan)
             /\ nodePhysicsData' = nodePhysicsData \ {instanceIdToExpand}
             /\ nextInst' = nextInst + Len(def.internalNodes)
             /\ nextWire' = nextWire + Len(plan.newWires)
             /\ lastOp' = Op("expand", instanceIdToExpand,
                            IF plan.modify # << >> THEN "rewired" ELSE "expanded")
             /\ UNCHANGED <<atomicNodes, isBoundaryActive, boundaryPorts,
                            definitions, gesture, modal, title, nextAtomic,
                            nextBPort, nextDef>>

expandDefinitionInstance(instanceIdToExpand) ==
  LET i == InstanceOf(instanceIdToExpand)
  IN IF i = 0 \/ ~canvasNodes[i].isDefinitionInstance
     THEN /\ lastOp' = Op("expand", instanceIdToExpand, "notDefinitionInstance")
          /\ UNCHANGED <<graph, gesture, modal, nodePhysicsData, title, ids>>
     ELSE IF DefinitionOf(canvasNodes[i].definitionId) = 0
     THEN /\ lastOp' = Op("expand", instanceIdToExpand, "unknownDefinition")
          /\ UNCHANGED <<graph, gesture, modal, nodePhysicsData, title, ids>>
     ELSE IF instanceIdToExpand \notin nodePhysicsData
     THEN /\ lastOp' = Op("expand", instanceIdToExpand, "noPhysicsData")
          /\ UNCHANGED <<graph, gesture, modal, nodePhysicsData, title, ids>>
     ELSE LET def == definitions[DefinitionOf(canvasNodes[i].definitionId)]
              plan == expandPlan(def, instanceIdToExpand)
          IN /\ nextInst + Len(def.internalNodes) <= MaxInst + 1
             /\ nextWire + Len(plan.newWires) <= MaxWire + 1
             /\ canvasNodes' = expandNodes(canvasNodes, instanceIdToExpand, plan)
             /\ wires' = expandWires(wires, plan)
             /\ nodePhysicsData' = nodePhysicsData \ {instanceIdToExpand}
             /\ nextInst' = nextInst + Len(def.internalNodes)
             /\ nextWire' = nextWire + Len(plan.newWires)
             /\ lastOp' = Op("expand", instanceIdToExpand,
                            IF plan.modify # << >> THEN "rewired" ELSE "expanded")
             /\ UNCHANGED <<atomicNodes, isBoundaryActive, boundaryPorts,
                            definitions, gesture, modal, title, nextAtomic,
                            nextBPort, nextDef>>

\* ----------------------------------------------------------- user inputs
\* The handlers are total, but the user interface calls them only on what
\* it renders: library entries, rendered nodes, ports and wires.
AtomicIds == { atomicNodes[i].id : i \in DOMAIN atomicNodes }

DefinitionIds == { definitions[i].id : i \in DOMAIN definitions }

\* CanvasArea renders a PhysicsNode only when the definition is found
IsRendered(n) ==
  IF n.isDefinitionInstance
  THEN DefinitionOf(n.definitionId) # 0
  ELSE AtomicDefOf(n.definitionId) # 0

RenderedNodeIds ==
  { canvasNodes[i].instanceId :
      i \in { j \in DOMAIN canvasNodes : IsRendered(canvasNodes[j]) } }

BoundaryPortIds == { boundaryPorts[i].id : i \in DOMAIN boundaryPorts }

EndRendered(nodeId, port) ==
  IF nodeId = BOUNDARY
  THEN isBoundaryActive /\ port \in BoundaryPortIds
  ELSE nodeId \in RenderedNodeIds

\* CanvasArea renders a PhysicsWire only when both ends have a rigid body
RenderedWireIds ==
  { wires[i].id :
      i \in { j \in DOMAIN wires :
                /\ EndRendered(wires[j].sourceNodeId, wires[j].sourcePortIndex)
                /\ EndRendered(wires[j].targetNodeId, wires[j].targetPortIndex) } }

\* double click reaches expandDefinitionInstance only for definition instances
RenderedDefinitionInstanceIds ==
  { canvasNodes[i].instanceId :
      i \in { j \in DOMAIN canvasNodes :
                canvasNodes[j].isDefinitionInstance /\ IsRendered(canvasNodes[j]) } }

\* ------------------------------------------------------------------- Next
\* How the browser sequences the handlers:
\*  - a click, a double click, a drop or a form submit is delivered after
\*    the mouse-up that precedes it, and that mouse-up runs
\*    handleGlobalMouseUp while a wire is being drawn; so the handlers these
\*    events drive run with drawingWire = null, and after the zero-delay
\*    timer of the last finishWire (a click that reaches the boundary mesh
\*    under a port at the end of a gesture only appends a boundary port,
\*    which reads neither and commutes with the steps of the gesture);
\*  - while the definition modal is open the events go to its form;
\*  - pointer down/up on ports, context menus (right button), wheel events,
\*    render frames and timers are delivered at any time outside the modal.
Idle == drawingWire = Null /\ ~isFinishingWire /\ ~isDefinitionModalOpen

PointerFree == ~isDefinitionModalOpen

Next ==
  \/ Idle /\ \E shape \in PortShapes : addAtomicNode(shape)
  \/ Idle /\ \E id \in AtomicIds : deleteAtomicNode(id)
  \/ Idle /\ \E id \in AtomicIds : addNodeToCanvas(FALSE, id)
  \/ Idle /\ \E id \in DefinitionIds : addNodeToCanvas(TRUE, id)
  \/ Idle /\ toggleBoundary
  \/ Idle /\ \E angle \in Angles : addBoundaryPort(angle)
  \/ Idle /\ handleAddDefinitionClick
  \/ Idle /\ \E id \in DefinitionIds : deleteDefinition(id)
  \/ Idle /\ \E id \in RenderedDefinitionInstanceIds : expandDefinitionInstance(id)
  \/ PointerFree /\ \E t \in RenderedPorts : startWire(t[1], t[2])
  \/ PointerFree /\ \E target \in MouseUpTargets : handleGlobalMouseUp(target)
  \/ PointerFree /\ \E id \in RenderedNodeIds : deleteCanvasNode(id)
  \/ PointerFree /\ \E id \in BoundaryPortIds : deleteBoundaryPort(id)
  \/ PointerFree /\ \E id \in RenderedWireIds : deleteWire(id)
  \/ PointerFree /\ \E id \in RenderedWireIds : handleUpdateWireLength(id)
  \/ closeDefinitionModal
  \/ addDefinition
  \/ updateNodePhysicsData(RenderedNodeIds)
  \/ releaseFinishingWire

Spec == Init /\ [][Next]_vars

\* ------------------------------------------ expansion of a placed instance
\* A second specification for expandDefinitionInstance.  It starts where a
\* session stands after a validated diagram was extracted with addDefinition
\* and one instance of the new definition was dropped on the canvas, alone
\* or next to an instance of the atomic node, with the boundary closed or
\* reopened with one port, and after a render frame.  The identifiers made
\* before that point are the "Old" ones: they lie outside the ranges the id
\* generators hand out afterwards, as the program's random ids do.
MaxDefNodes == 1
MaxDefPorts == 2

OldInst(j) == MaxInst + j

OldWire(j) == MaxWire + j

OldBPort(j) == 0 - (MaxBPort + j)

\* the canvas nodes of the extracted diagram: n instances of atomic node 1
candidateNodes(n) ==
  [j \in 1..n |-> [instanceId |-> OldInst(j), definitionId |-> 1,
                   isDefinitionInstance |-> FALSE]]

\* its boundary ports, with the angles ang[1..m]
candidatePorts(m, ang) ==
  [j \in 1..m |-> [id |-> OldBPort(j), angle |-> ang[j]]]

\* the ports of the extracted diagram
candidateEnds(n, m, shape) ==
  { <<OldInst(j), p>> : j \in 1..n, p \in 0..(shape[1] + shape[2] - 1) }
  \cup { <<BOUNDARY, OldBPort(j)>> : j \in 1..m }

\* the wire finishWire or handleGlobalMouseUp made from e[1] to e[2]
candidateWire(i, e) ==
  [id |-> OldWire(i),
   sourceNodeId |-> e[1][1], sourcePortIndex |-> e[1][2],
   targetNodeId |-> e[2][1], targetPortIndex |-> e[2][2],
   targetLength |-> IF e[1][1] # BOUNDARY /\ e[2][1] # BOUNDARY
                    THEN "number" ELSE "null"]

\* the wires the gestures make for the set pairs of (source, target) pairs,
\* in one order of creation
candidateWireSeq(pairs) ==
  LET k == Cardinality(pairs)
      f == CHOOSE g \in [1..k -> pairs] : \A e \in pairs : \E i \in 1..k : g[i] = e
  IN [i \in 1..k |-> candidateWire(i, f[i])]

\* the wirings handleAddDefinitionClick accepts: no port is left dangling;
\* and, as the gestures build them, no port has two wires and no wire ends
\* where it starts
candidateWires(n, m, shape) ==
  LET ends == candidateEnds(n, m, shape)
      all == { candidateWireSeq(pairs) :
                 pairs \in { S \in SUBSET (ends \X ends) :
                              2 * Cardinality(S) = Cardinality(ends) } }
  IN { ws \in all :
         /\ \A e \in ends :
              Cardinality({ i \in DOMAIN ws : Touches(ws[i], e[1], e[2]) }) = 1
         /\ \A i \in DOMAIN ws :
              ~isSelfConnection(ws[i].sourceNodeId, ws[i].sourcePortIndex,
                                ws[i].targetNodeId, ws[i].targetPortIndex) }

\* what the instance was dropped next to
Surroundings == { "alone", "partner", "reopened" }

InitExpand ==
  \E shape \in PortShapes, n \in 0..MaxDefNodes, m \in 1..MaxDefPorts :
  \E ang \in [1..m -> Angles], around \in Surroundings :
  \E ws \in candidateWires(n, m, shape) :
    /\ title = "Untitled"
    /\ atomicNodes = << [id |-> 1, principalPorts |-> shape[1],
                         nonPrincipalPorts |-> shape[2]] >>
    /\ definitions =
         << [id |-> 0 - 1,
             internalNodes |-> candidateNodes(n),
             internalWires |-> ws,
             externalPorts |-> makeExternalPorts(
                [nodes |-> candidateNodes(n), wires |-> ws,
                 ports |-> candidatePorts(m, ang)])] >>
    /\ canvasNodes =
         << [instanceId |-> OldInst(n + 1), definitionId |-> 0 - 1,
             isDefinitionInstance |-> TRUE] >>
         \o (IF around = "partner"
             THEN << [instanceId |-> OldInst(n + 2), definitionId |-> 1,
                      isDefinitionInstance |-> FALSE] >>
             ELSE << >>)
    /\ wires = << >>
    /\ drawingWire = Null
    /\ isFinishingWire = FALSE
    /\ isBoundaryActive = (around = "reopened")
    /\ boundaryPorts = IF around = "reopened"
                       THEN << [id |-> OldBPort(m + 1), angle |-> 1] >>
                       ELSE << >>
    /\ isDefinitionModalOpen = FALSE
    /\ definitionCandidate = Null
    /\ nodePhysicsData = { OldInst(j) : j \in 1..(IF around = "partner" THEN n + 2 ELSE n + 1) }
    /\ nextAtomic = 2
    /\ nextInst = 1
    /\ nextWire = 1
    /\ nextBPort = 1
    /\ nextDef = 2
    /\ lastOp = Op("init", 0, "")

\* wire gestures, wheel on a wire, double click on the instance, frames
NextExpand ==
  \/ \E t \in RenderedPorts : startWire(t[1], t[2])
  \/ \E target \in MouseUpTargets : handleGlobalMouseUp(target)
  \/ \E id \in RenderedWireIds : handleUpdateWireLength(id)
  \/ Idle /\ \E id \in RenderedDefinitionInstanceIds : expandDefinitionInstance(id)
  \/ updateNodePhysicsData(RenderedNodeIds)
  \/ releaseFinishingWire

SpecExpand == InitExpand /\ [][NextExpand]_vars

\* ------------------------------------------------ extraction of a diagram
\* A third specification for handleAddDefinitionClick and addDefinition.  It
\* starts where a session stands when a diagram has been drawn inside an
\* open boundary and every port is wired: up to MaxDefNodes instances of the
\* atomic node and up to MaxDefPorts boundary ports, which were clicked in
\* the order of their index at angles drawn from ExtractAngles (two clicks
\* can land on one ray of the ring).  The diagram's identifiers are "Old"
\* ones, as above.
MaxExtractAngle == 2

ExtractAngles == 1..MaxExtractAngle

InitExtract ==
  \E shape \in PortShapes, n \in 0..MaxDefNodes, m \in 1..MaxDefPorts :
  \E ang \in [1..m -> ExtractAngles] :
  \E ws \in candidateWires(n, m, shape) :
    /\ title = "Untitled"
    /\ atomicNodes = << [id |-> 1, principalPorts |-> shape[1],
                         nonPrincipalPorts |-> shape[2]] >>
    /\ definitions = << >>
    /\ canvasNodes = candidateNodes(n)
    /\ wires = ws
    /\ drawingWire = Null
    /\ isFinishingWire = FALSE
    /\ isBoundaryActive = TRUE
    /\ boundaryPorts = candidatePorts(m, ang)
    /\ isDefinitionModalOpen = FALSE
    /\ definitionCandidate = Null
    /\ nodePhysicsData = { OldInst(j) : j \in 1..n }
    /\ nextAtomic = 2
    /\ nextInst = 1
    /\ nextWire = 1
    /\ nextBPort = 1
    /\ nextDef = 1
    /\ lastOp = Op("init", 0, "")

\* the "Add Definition" button and the modal's form, the boundary button,
\* context menus on boundary ports and wires
NextExtract ==
  \/ Idle /\ handleAddDefinitionClick
  \/ closeDefinitionModal
  \/ addDefinition
  \/ Idle /\ toggleBoundary
  \/ PointerFree /\ \E id \in BoundaryPortIds : deleteBoundaryPort(id)
  \/ PointerFree /\ \E id \in RenderedWireIds : deleteWire(id)

SpecExtract == InitExtract /\ [][NextExtract]_vars

\* ------------------------------------------- a placed instance, continued
\* A fourth specification, from the same starting points as SpecExpand, for
\* what the user can do next to a placed instance besides wiring and
\* expanding it: delete the atomic node from the library, and request a new
\* definition inside the reopened boundary.
NextNested ==
  \/ Idle /\ \E id \in AtomicIds : deleteAtomicNode(id)
  \/ Idle /\ handleAddDefinitionClick
  \/ Idle /\ \E id \in RenderedDefinitionInstanceIds : expandDefinitionInstance(id)
  \/ PointerFree /\ \E t \in RenderedPorts : startWire(t[1], t[2])
  \/ PointerFree /\ \E target \in MouseUpTargets : handleGlobalMouseUp(target)
  \/ closeDefinitionModal
  \/ updateNodePhysicsData(RenderedNodeIds)
  \/ releaseFinishingWire

SpecNested == InitExpand /\ [][NextNested]_vars

\* ------------------------------------------------ import of a workspace
\* A fifth specification for handleFileChange and the title field.  A file
\* is modelled by what FileReader and JSON.parse make of it and, when the
\* parse gives a value other than null, by what reading each top-level
\* property of that value gives: nothing (the key is absent, or the value
\* is a primitive), a value of another type, or a value of the expected
\* type.  reader.onload runs after the change event returns; it reads no
\* state and only calls setters with values from the file, so the read and
\* the callback are one step.
OldAtomic(j) == MaxAtomic + j

OldDef(j) == 0 - (MaxDef + j)

\* what the title input can hold
Titles == { "", "Net" }

ImportedAtomicNodes ==
  { << >>,
    << [id |-> OldAtomic(1), principalPorts |-> 1, nonPrincipalPorts |-> 1] >> }

ImportedCanvasNodes ==
  { << >>,
    << [instanceId |-> OldInst(1), definitionId |-> OldAtomic(1),
        isDefinitionInstance |-> FALSE] >> }

ImportedWires ==
  { << >>,
    << candidateWire(2, << <<OldInst(1), 0>>, <<OldInst(1), 1>> >>) >> }

ImportedDefinitions ==
  { << >>,
    << [id |-> OldDef(1),
        internalNodes |-> << >>,
        internalWires |->
          << candidateWire(1, << <<BOUNDARY, OldBPort(1)>>,
                                 <<BOUNDARY, OldBPort(2)>> >>) >>,
        externalPorts |->
          << [id |-> OldBPort(1), angle |-> 1, isPrincipal |-> FALSE],
             [id |-> OldBPort(2), angle |-> 2, isPrincipal |-> FALSE] >>] >> }

\* jsonData.<key> for a key that should hold an array
ArrayProperty(values) ==
  { [kind |-> "absent", value |-> << >>], [kind |-> "other", value |-> << >>] }
  \cup { [kind |-> "array", value |-> v] : v \in values }

\* jsonData.title
TitleProperty ==
  { [kind |-> "absent", value |-> ""], [kind |-> "other", value |-> ""] }
  \cup { [kind |-> "string", value |-> t] : t \in Titles }

NoProperty == [kind |-> "absent", value |-> << >>]

NoTitle == [kind |-> "absent", value |-> ""]

\* the files the user can pick: one that cannot be read, one that is not
\* JSON, the JSON text null, and JSON values with every combination of
\* properties
Files ==
  { [content |-> c, title |-> NoTitle, atomicNodes |-> NoProperty,
     canvasNodes |-> NoProperty, wires |-> NoProperty,
     definitions |-> NoProperty] : c \in { "unreadable", "notJSON", "null" } }
  \cup
  { [content |-> "value", title |-> t, atomicNodes |-> a, canvasNodes |-> c,
     wires |-> w, definitions |-> d] :
      t \in TitleProperty, a \in ArrayProperty(ImportedAtomicNodes),
      c \in ArrayProperty(ImportedCanvasNodes),
      w \in ArrayProperty(ImportedWires),
      d \in ArrayProperty(ImportedDefinitions) }

\* Array.isArray(jsonData.key) ? jsonData.key : []
importArray(property) ==
  IF property.kind = "array" THEN property.value ELSE << >>

\* typeof jsonData.title === 'string' ? (jsonData.title || 'Untitled') : 'Untitled'
importTitle(property) ==
  IF property.kind = "string"
  THEN IF property.value = "" THEN "Untitled" ELSE property.value
  ELSE "Untitled"

\* reader.onerror, a throw of JSON.parse, and the TypeError of reading a
\* property of null all end in an alert; the last two inside the try block
importOutcome(file) ==
  IF file.content = "unreadable" THEN "readError"
  ELSE IF file.content \in { "notJSON", "null" } THEN "caught"
  ELSE "imported"

\* handleFileChange giving up the whole import when one array is missing
handleFileChangeAllOrNothing(file) ==
  /\ IF /\ importOutcome(file) = "imported"
        /\ file.atomicNodes.kind = "array"
        /\ file.canvasNodes.kind = "array"
        /\ file.wires.kind = "array"
        /\ file.definitions.kind = "array"
     THEN /\ title' = importTitle(file.title)
          /\ atomicNodes' = importArray(file.atomicNodes)
          /\ canvasNodes' = importArray(file.canvasNodes)
          /\ wires' = importArray(file.wires)
          /\ definitions' = importArray(file.definitions)
     ELSE UNCHANGED <<title, atomicNodes, canvasNodes, wires, definitions>>
  /\ lastOp' = Op("import", file, importOutcome(file))
  /\ UNCHANGED <<isBoundaryActive, boundaryPorts, gesture, modal,
                 nodePhysicsData, ids>>

handleFileChange(file) ==
  /\ IF importOutcome(file) = "imported"
     THEN /\ title' = importTitle(file.title)
          /\ atomicNodes' = importArray(file.atomicNodes)
          /\ canvasNodes' = importArray(file.canvasNodes)
          /\ wires' = importArray(file.wires)
          /\ definitions' = importArray(file.definitions)
     ELSE UNCHANGED <<title, atomicNodes, canvasNodes, wires, definitions>>
  /\ lastOp' = Op("import", file, importOutcome(file))
  /\ UNCHANGED <<isBoundaryActive, boundaryPorts, gesture, modal,
                 nodePhysicsData, ids>>

handleTitleChange(value) ==
  /\ title' = value
  /\ lastOp' = Op("titleChange", 0, "")
  /\ UNCHANGED <<graph, gesture, modal, nodePhysicsData, ids>>

\* handleTitleBlur and handleTitleKeyDown (Enter)
handleTitleBlur ==
  /\ title' = IF title = "" THEN "Untitled" ELSE title
  /\ lastOp' = Op("titleBlur", 0, "")
  /\ UNCHANGED <<graph, gesture, modal, nodePhysicsData, ids>>

\* the import button, the title field, and the library and drop handlers
\* that fill the workspace an import replaces
NextImport ==
  \/ Idle /\ \E file \in Files : handleFileChange(file)
  \/ Idle /\ \E value \in Titles : handleTitleChange(value)
  \/ Idle /\ handleTitleBlur
  \/ Idle /\ \E shape \in PortShapes : addAtomicNode(shape)
  \/ Idle /\ \E id \in AtomicIds : addNodeToCanvas(FALSE, id)

SpecImport == Init /\ [][NextImport]_vars

\* ------------------------------------------------- the wire-completion latch
\* A sixth specification, for the latch of finishWire.  It starts from the
\* same states as SpecExpand and takes wire gestures only.  The callback
\* that finishWire schedules with setTimeout(..., 0) is a task of the event
\* loop, which runs every task it has queued: the release of the latch is
\* weakly fair.
NextLatch ==
  \/ \E t \in RenderedPorts : startWire(t[1], t[2])
  \/ \E target \in MouseUpTargets : handleGlobalMouseUp(target)
  \/ releaseFinishingWire

SpecLatch ==
  InitExpand /\ [][NextLatch]_vars /\ WF_vars(releaseFinishingWire)

\* ------------------------------------------- a file read that ends late
\* A seventh specification for the form of the definition modal.  The
\* change event of the file input only starts the FileReader; reader.onload
\* is a callback of the event loop, so a read started before the "Add
\* Definition" click can end while the modal is open.  The workspace the
\* file holds has identifiers of its own.
LateAtomic ==
  [id |-> OldAtomic(1), principalPorts |-> 1, nonPrincipalPorts |-> 1]

LateInst == OldInst(MaxDefNodes + 3)

LateNode ==
  [instanceId |-> LateInst, definitionId |-> OldAtomic(1),
   isDefinitionInstance |-> FALSE]

LateWire ==
  candidateWire(MaxDefNodes + MaxDefPorts + 1,
                << <<LateInst, 0>>, <<LateInst, 1>> >>)

LateFiles ==
  { [content |-> c, title |-> NoTitle, atomicNodes |-> NoProperty,
     canvasNodes |-> NoProperty, wires |-> NoProperty,
     definitions |-> NoProperty] : c \in { "unreadable", "notJSON" } }
  \cup
  { [content |-> "value", title |-> NoTitle,
     atomicNodes |-> [kind |-> "array", value |-> << LateAtomic >>],
     canvasNodes |-> c, wires |-> w, definitions |-> NoProperty] :
      c \in ArrayProperty({ << >>, << LateNode >> }),
      w \in ArrayProperty({ << >>, << LateWire >> }) }

NextLate ==
  \/ Idle /\ handleAddDefinitionClick
  \/ closeDefinitionModal
  \/ addDefinition
  \/ \E file \in LateFiles : handleFileChange(file)

SpecLate == InitExtract /\ [][NextLate]_vars

\* ------------------------------------------------------------- properties
WireEnds(ws) ==
  { <<ws[i].sourceNodeId, ws[i].sourcePortIndex>> : i \in DOMAIN ws }
  \cup { <<ws[i].targetNodeId, ws[i].targetPortIndex>> : i \in DOMAIN ws }

WiresOn(ws, n, p) == { i \in DOMAIN ws : Touches(ws[i], n, p) }

\* C1: in every state reachable from the empty workspace, every port (node
\* instance + port index, or BOUNDARY + boundary port id) is the source or
\* target endpoint of at most one wire.
C1_OneWirePerPort ==
  \A e \in WireEnds(wires) : Cardinality(WiresOn(wires, e[1], e[2])) <= 1

\* two wires side by side, the second just made by a gesture
C1_Witness ==
  /\ Len(wires) >= 2
  /\ lastOp.op \in {"mouseUp", "mouseUpBoundary"}
  /\ lastOp.note = "created"

\* C2: no wire whose source endpoint equals its target endpoint is ever
\* created, whether the gesture ends on a node port or on a boundary port.
C2_NoSelfLoopWire ==
  \A i \in DOMAIN wires :
    ~(/\ wires[i].sourceNodeId = wires[i].targetNodeId
      /\ wires[i].sourcePortIndex = wires[i].targetPortIndex)

\* the gesture's source endpoint, and the endpoint under the pointer
GestureSourceOccupied ==
  IsOccupied(wires, drawingWire[1].sourceNodeId, drawingWire[1].sourcePortIndex)

GestureTargetOccupied(target) ==
  IsOccupied(wires, target[1].nodeId, target[1].portIndex)

\* C3: a mouse-up that ends a gesture on a port leaves the wires unchanged
\* whenever the gesture's source endpoint or the port under the pointer is
\* already the source or the target of some wire.
C3_OccupiedRefused ==
  [][\A target \in MouseUpTargets \ {Null} :
       (/\ handleGlobalMouseUp(target)
        /\ (GestureSourceOccupied \/ GestureTargetOccupied(target)))
       => wires' = wires]_vars

\* a gesture was just refused for an occupied endpoint, the wires that
\* occupy it still in place
C3_Witness ==
  /\ lastOp.op \in {"mouseUp", "mouseUpBoundary"}
  /\ lastOp.note \in {"sourceOccupied", "targetOccupied"}
  /\ wires # << >>

\* the step is a completed expansion; the instance it expanded and, in the
\* state before the step, the definition of that instance
Expanded == lastOp'.op = "expand" /\ lastOp'.note \in {"expanded", "rewired"}

ExpandedInst == lastOp'.arg

ExpandedDef ==
  definitions[DefinitionOf(canvasNodes[InstanceOf(ExpandedInst)].definitionId)]

\* the end of wire w that is not its end (n, p)
FarEnd(w, n, p) ==
  IF w.sourceNodeId = n /\ w.sourcePortIndex = p
  THEN <<w.targetNodeId, w.targetPortIndex>>
  ELSE <<w.sourceNodeId, w.sourcePortIndex>>

Joins(w, e, f) == Touches(w, e[1], e[2]) /\ Touches(w, f[1], f[2])

\* index of the external port made from boundary port id, -1 when none
ExternalPortIndex(def, id) ==
  FindIndex(def.externalPorts, LAMBDA p : p.id = id) - 1

\* what the boundary port of external port k was wired to in the definition
InnerEnd(def, k) ==
  LET id == def.externalPorts[k + 1].id
      c == FindIndex(def.internalWires, LAMBDA w : Touches(w, BOUNDARY, id))
  IN IF c = 0 THEN Null ELSE Some(FarEnd(def.internalWires[c], BOUNDARY, id))

\* the instance id the expansion gives the internal node with the id `id`
NewInstanceId(def, id) ==
  nextInst - 1 + FindIndex(def.internalNodes, LAMBDA n : n.instanceId = id)

\* C4: a completed expansion removes the instance from the canvas and leaves
\* no wire with the instance as its source or target node, whatever the
\* external wiring was.
C4_ExpandedInstanceUnreferenced ==
  [][Expanded =>
       /\ \A i \in DOMAIN canvasNodes' :
            canvasNodes'[i].instanceId # ExpandedInst
       /\ \A i \in DOMAIN wires' :
            /\ wires'[i].sourceNodeId # ExpandedInst
            /\ wires'[i].targetNodeId # ExpandedInst]_vars

\* C5: round trip. Expanding a placed instance of an extracted diagram whose
\* ports were wired to things outside the instance gives one new node per
\* internal node with the same definition, the internal node-to-node wires
\* on the same port indices, and every external connection preserved: what
\* was wired to external port k is wired to the internal node port the
\* boundary port of k was wired to, or, when that boundary port was wired
\* straight to another boundary port, to what was wired to that other port.
C5_RoundTrip ==
  [][(/\ Expanded
      /\ \A i \in DOMAIN wires :
           ~(wires[i].sourceNodeId = ExpandedInst
             /\ wires[i].targetNodeId = ExpandedInst))
     =>
     LET def == ExpandedDef
         inst == ExpandedInst
     IN /\ Len(canvasNodes') = Len(canvasNodes) - 1 + Len(def.internalNodes)
        /\ \A j \in DOMAIN def.internalNodes :
             \E i \in DOMAIN canvasNodes' :
               /\ canvasNodes'[i].instanceId = nextInst + j - 1
               /\ canvasNodes'[i].definitionId = def.internalNodes[j].definitionId
               /\ ~canvasNodes'[i].isDefinitionInstance
        /\ \A b \in DOMAIN def.internalWires :
             LET iw == def.internalWires[b]
             IN (iw.sourceNodeId # BOUNDARY /\ iw.targetNodeId # BOUNDARY) =>
                \E x \in DOMAIN wires' :
                  /\ wires'[x].sourceNodeId = NewInstanceId(def, iw.sourceNodeId)
                  /\ wires'[x].sourcePortIndex = iw.sourcePortIndex
                  /\ wires'[x].targetNodeId = NewInstanceId(def, iw.targetNodeId)
                  /\ wires'[x].targetPortIndex = iw.targetPortIndex
        /\ \A k \in 0..(Len(def.externalPorts) - 1) :
           \A i \in WiresOn(wires, inst, k) :
             LET far == FarEnd(wires[i], inst, k)
                 inner == InnerEnd(def, k)
             IN inner # Null =>
                IF inner[1][1] # BOUNDARY
                THEN \E x \in DOMAIN wires' :
                       Joins(wires'[x], far,
                             <<NewInstanceId(def, inner[1][1]), inner[1][2]>>)
                ELSE \A j \in WiresOn(wires, inst,
                                      ExternalPortIndex(def, inner[1][2])) :
                       \E x \in DOMAIN wires' :
                         Joins(wires'[x], far,
                               FarEnd(wires[j], inst,
                                      ExternalPortIndex(def, inner[1][2])))]_vars

\* C6: when the definition has a boundary-to-boundary internal wire between
\* external ports k and k2 and the instance has one external wire on k and
\* another on k2, the expansion adds exactly one new wire joining the far
\* ends of the two, removes both of them and removes the instance.
C6_StraightThroughSpliced ==
  [][Expanded =>
     LET def == ExpandedDef
         inst == ExpandedInst
         oldIds == { wires[i].id : i \in DOMAIN wires }
     IN \A b \in DOMAIN def.internalWires :
          LET iw == def.internalWires[b]
              k == ExternalPortIndex(def, iw.sourcePortIndex)
              k2 == ExternalPortIndex(def, iw.targetPortIndex)
          IN (iw.sourceNodeId = BOUNDARY /\ iw.targetNodeId = BOUNDARY) =>
             \A i \in WiresOn(wires, inst, k), j \in WiresOn(wires, inst, k2) :
               i # j =>
                 /\ Cardinality({ x \in DOMAIN wires' :
                       /\ wires'[x].id \notin oldIds
                       /\ Joins(wires'[x], FarEnd(wires[i], inst, k),
                                FarEnd(wires[j], inst, k2)) }) = 1
                 /\ \A x \in DOMAIN wires' :
                      wires'[x].id \notin {wires[i].id, wires[j].id}
                 /\ \A x \in DOMAIN canvasNodes' :
                      canvasNodes'[x].instanceId # inst]_vars

\* C7: a wire that an expansion rewires keeps its id, its targetLength, its
\* other endpoint and its orientation; the one endpoint that was on port k
\* of the expanded instance becomes (new instance id of the internal node,
\* internal port index), the internal node port the boundary port of k was
\* wired to.
C7_RewirePreservesWire ==
  [][Expanded =>
     LET def == ExpandedDef
         inst == ExpandedInst
         movedTo(k) == <<NewInstanceId(def, InnerEnd(def, k)[1][1]),
                         InnerEnd(def, k)[1][2]>>
         backed(k) == /\ k \in 0..(Len(def.externalPorts) - 1)
                      /\ InnerEnd(def, k) # Null
                      /\ InnerEnd(def, k)[1][1] # BOUNDARY
     IN \A i \in DOMAIN wires, x \in DOMAIN wires' :
          (wires'[x].id = wires[i].id /\ wires'[x] # wires[i]) =>
            \/ /\ wires[i].sourceNodeId = inst
               /\ backed(wires[i].sourcePortIndex)
               /\ wires'[x] =
                    [wires[i] EXCEPT
                       !.sourceNodeId = movedTo(wires[i].sourcePortIndex)[1],
                       !.sourcePortIndex = movedTo(wires[i].sourcePortIndex)[2]]
            \/ /\ wires[i].targetNodeId = inst
               /\ backed(wires[i].targetPortIndex)
               /\ wires'[x] =
                    [wires[i] EXCEPT
                       !.targetNodeId = movedTo(wires[i].targetPortIndex)[1],
                       !.targetPortIndex = movedTo(wires[i].targetPortIndex)[2]]]_vars

\* an expansion just rewired a wire, and a wire with a set targetLength ends
\* on one of the nodes the expansion created
C7_Witness ==
  /\ lastOp.op = "expand"
  /\ lastOp.note = "rewired"
  /\ \E i \in DOMAIN wires :
       /\ wires[i].targetLength = "number"
       /\ \/ wires[i].sourceNodeId \in 1..(nextInst - 1)
          \/ wires[i].targetNodeId \in 1..(nextInst - 1)

\* C8: deleteCanvasNode removes the node and every wire with the node as its
\* source or target, in one step; no wire references the node afterwards,
\* and the other nodes, the other wires and the rest of the state are
\* unchanged.
C8_DeleteCanvasNodeCascade ==
  [][lastOp'.op = "deleteCanvasNode" =>
     LET id == lastOp'.arg
     IN /\ \A i \in DOMAIN canvasNodes' : canvasNodes'[i].instanceId # id
        /\ \A i \in DOMAIN wires' :
             wires'[i].sourceNodeId # id /\ wires'[i].targetNodeId # id
        /\ canvasNodes' = SelectSeq(canvasNodes, LAMBDA n : n.instanceId # id)
        /\ wires' = SelectSeq(wires, LAMBDA w :
                      w.sourceNodeId # id /\ w.targetNodeId # id)
        /\ UNCHANGED <<atomicNodes, isBoundaryActive, boundaryPorts,
                       definitions, gesture, modal>>]_vars

\* a node was just deleted together with a wire; another node and another
\* wire are still there
C8_Witness ==
  /\ lastOp.op = "deleteCanvasNode"
  /\ lastOp.note = "cascade"
  /\ canvasNodes # << >>
  /\ wires # << >>

\* C9: deleteAtomicNode removes every canvas instance of the definition and
\* every wire incident to a removed instance: afterwards no wire references
\* a removed instance.
C9_DeleteAtomicNodeCascade ==
  [][lastOp'.op = "deleteAtomicNode" =>
     LET removed == { canvasNodes[i].instanceId : i \in DOMAIN canvasNodes }
                    \ { canvasNodes'[i].instanceId : i \in DOMAIN canvasNodes' }
     IN \A i \in DOMAIN wires' :
          /\ wires'[i].sourceNodeId \notin removed
          /\ wires'[i].targetNodeId \notin removed]_vars

\* C10: deletion is idempotent. In every state, for every wire id and every
\* instance id generated so far, the state update of deleteWire (of
\* deleteCanvasNode) applied to its own result changes nothing, and the
\* update of deleteWire with an id that is not present changes nothing.
C10_DeletionIdempotent ==
  /\ \A id \in 1..(nextWire - 1) :
       /\ deleteWireWires(deleteWireWires(wires, id), id)
            = deleteWireWires(wires, id)
       /\ (\A i \in DOMAIN wires : wires[i].id # id)
            => deleteWireWires(wires, id) = wires
  /\ \A id \in 1..(nextInst - 1) :
       /\ deleteCanvasNodeNodes(deleteCanvasNodeNodes(canvasNodes, id), id)
            = deleteCanvasNodeNodes(canvasNodes, id)
       /\ deleteCanvasNodeWires(deleteCanvasNodeWires(wires, id), id)
            = deleteCanvasNodeWires(wires, id)

\* a wire was just deleted: its id is now absent, other wires are present
C10_Witness ==
  /\ lastOp.op = "deleteWire"
  /\ wires # << >>
  /\ Len(wires) < nextWire - 1

\* every port of every canvas node, and every current boundary port
AllPortEnds ==
  UNION { { <<canvasNodes[i].instanceId, p>> :
              p \in 0..(RenderedPortCount(canvasNodes[i]) - 1) } :
          i \in DOMAIN canvasNodes }
  \cup { <<BOUNDARY, boundaryPorts[i].id>> : i \in DOMAIN boundaryPorts }

SomePortDangling == \E e \in AllPortEnds : ~IsOccupied(wires, e[1], e[2])

Requested == lastOp'.op = "addDefinitionClick"

Refused ==
  /\ lastOp'.note = "refused"
  /\ UNCHANGED <<isDefinitionModalOpen, definitionCandidate, canvasNodes,
                 wires, boundaryPorts, definitions>>

\* C11: a request for a definition made while some port of some canvas node,
\* or some boundary port, is the endpoint of no wire is refused: no candidate
\* is stored, the modal stays closed, and nodes, wires, boundary ports and
\* definitions are unchanged.
C11_DanglingRefused ==
  [][(Requested /\ SomePortDangling) => Refused]_vars

NothingChanged == UNCHANGED <<graph, gesture, modal, nodePhysicsData, ids>>

\* C12: a request for a definition made while the boundary session has no
\* boundary port, or is not active, is refused and changes nothing; and every
\* definition in the library has at least one external port.
C12_EmptyBoundaryRefused ==
  /\ [][(Requested /\ (~isBoundaryActive \/ Len(boundaryPorts) = 0))
          => (lastOp'.note = "refused" /\ NothingChanged)]_vars
  /\ [](\A i \in DOMAIN definitions : Len(definitions[i].externalPorts) >= 1)

\* a request was just refused in an active session without boundary ports,
\* with a definition made earlier in the library
C12_Witness ==
  /\ lastOp.op = "addDefinitionClick"
  /\ lastOp.note = "refused"
  /\ isBoundaryActive
  /\ Len(boundaryPorts) = 0
  /\ Len(definitions) > 0

\* a step of addDefinition that made a definition, the candidate it was made
\* from, and the definition
Defined == lastOp'.op = "addDefinition" /\ lastOp'.note = ""

Candidate == definitionCandidate[1]

NewDefinition == definitions'[Len(definitions')]

\* C13: every external port of a definition made by addDefinition whose
\* boundary port was wired to port p of an internal node of an atomic node
\* with P principal ports has isPrincipal = (p < P); an external port whose
\* boundary port was wired to a boundary port has isPrincipal = FALSE, and
\* the definition is made all the same.
C13_ExternalPortPrincipal ==
  [][Defined =>
       /\ Len(definitions') = Len(definitions) + 1
       /\ \A k \in DOMAIN NewDefinition.externalPorts :
          \A i \in DOMAIN Candidate.wires :
            LET x == NewDefinition.externalPorts[k]
                w == Candidate.wires[i]
                far == FarEnd(w, BOUNDARY, x.id)
            IN Touches(w, BOUNDARY, x.id) =>
                 IF far[1] = BOUNDARY
                 THEN x.isPrincipal = FALSE
                 ELSE \A n \in DOMAIN Candidate.nodes, a \in DOMAIN atomicNodes :
                        (/\ Candidate.nodes[n].instanceId = far[1]
                         /\ atomicNodes[a].id = Candidate.nodes[n].definitionId)
                        => (x.isPrincipal = (far[2] < atomicNodes[a].principalPorts))
  ]_vars

\* a definition was just made from a two-port node: one external port is
\* principal, the other is wired to the node and is not
C13_Witness ==
  /\ lastOp.op = "addDefinition"
  /\ lastOp.note = ""
  /\ \E d \in DOMAIN definitions :
     \E k, l \in DOMAIN definitions[d].externalPorts :
       /\ definitions[d].externalPorts[k].isPrincipal
       /\ ~definitions[d].externalPorts[l].isPrincipal
       /\ \E i \in DOMAIN definitions[d].internalWires :
            LET w == definitions[d].internalWires[i]
                id == definitions[d].externalPorts[l].id
            IN Touches(w, BOUNDARY, id) /\ FarEnd(w, BOUNDARY, id)[1] # BOUNDARY

\* the orders in which n boundary ports can have been added
InsertionOrders(n) ==
  { f \in [1..n -> 1..n] : \A i \in 1..n : \E j \in 1..n : f[j] = i }

\* the candidate, had its boundary ports been added in the order f
CandidateAddedIn(f) ==
  [Candidate EXCEPT !.ports = [j \in DOMAIN Candidate.ports |-> Candidate.ports[f[j]]]]

\* C14: the externalPorts of a definition made by addDefinition are in
\* ascending order of angle, and they are the same sequence for every order
\* in which the same boundary ports were added to the session, equal angles
\* included.
C14_AngleSortDeterministic ==
  [][Defined =>
       /\ \A k, l \in DOMAIN NewDefinition.externalPorts :
            k < l => NewDefinition.externalPorts[k].angle
                       <= NewDefinition.externalPorts[l].angle
       /\ \A f \in InsertionOrders(Len(Candidate.ports)) :
            makeExternalPorts(CandidateAddedIn(f)) = NewDefinition.externalPorts
  ]_vars

\* the boundary ports of the session a definition is made from
SessionPortIds ==
  BoundaryPortIds \cup { Candidate.ports[b].id : b \in DOMAIN Candidate.ports }

\* C15: a step of addDefinition that makes a definition appends one
\* definition holding the candidate's nodes and wires, leaves no candidate
\* node on the canvas and no wire on a candidate node or on a boundary port
\* of the session, closes the session with an empty port set, and clears the
\* candidate.
C15_ExtractionCleansUp ==
  [][Defined =>
       /\ Len(definitions') = Len(definitions) + 1
       /\ SubSeq(definitions', 1, Len(definitions)) = definitions
       /\ NewDefinition.internalNodes = Candidate.nodes
       /\ NewDefinition.internalWires = Candidate.wires
       /\ \A i \in DOMAIN canvasNodes', n \in DOMAIN Candidate.nodes :
            canvasNodes'[i].instanceId # Candidate.nodes[n].instanceId
       /\ \A i \in DOMAIN wires' :
            /\ \A n \in DOMAIN Candidate.nodes :
                 /\ wires'[i].sourceNodeId # Candidate.nodes[n].instanceId
                 /\ wires'[i].targetNodeId # Candidate.nodes[n].instanceId
            /\ \A id \in SessionPortIds : ~Touches(wires'[i], BOUNDARY, id)
       /\ ~isBoundaryActive'
       /\ boundaryPorts' = << >>
       /\ definitionCandidate' = Null
  ]_vars

\* a definition was just made from a diagram with a node and wires
C15_Witness ==
  /\ lastOp.op = "addDefinition"
  /\ lastOp.note = ""
  /\ Len(definitions) > 0
  /\ Len(definitions[Len(definitions)].internalNodes) > 0
  /\ Len(definitions[Len(definitions)].internalWires) > 1
  /\ Len(definitions[Len(definitions)].externalPorts) > 1

OnBoundaryPort(w, portIds) == \E id \in portIds : Touches(w, BOUNDARY, id)

NodeToNode(w) == w.sourceNodeId # BOUNDARY /\ w.targetNodeId # BOUNDARY

\* C16: toggleBoundary on an active session removes exactly the wires with
\* an end on a current boundary port, empties the port set and deactivates
\* the session; the canvas nodes and the wires between nodes are unchanged.
C16_CloseBoundaryCascade ==
  [][(lastOp'.op = "toggleBoundary" /\ isBoundaryActive) =>
       /\ wires' = SelectSeq(wires, LAMBDA w : ~OnBoundaryPort(w, BoundaryPortIds))
       /\ boundaryPorts' = << >>
       /\ ~isBoundaryActive'
       /\ canvasNodes' = canvasNodes
       /\ SelectSeq(wires', NodeToNode) = SelectSeq(wires, NodeToNode)
  ]_vars

\* the session was just closed over a canvas that keeps a node and a wire
\* between its ports
C16_Witness ==
  /\ lastOp.op = "toggleBoundary"
  /\ ~isBoundaryActive
  /\ Len(canvasNodes) > 0
  /\ \E i \in DOMAIN wires : NodeToNode(wires[i])

\* C17: deleteBoundaryPort(id) removes the boundary port id and exactly the
\* wires with an end on it; the other boundary ports, the wires that do not
\* touch it and the rest of the state are unchanged.
C17_DeleteBoundaryPortCascade ==
  [][lastOp'.op = "deleteBoundaryPort" =>
       \E id \in BoundaryPortIds :
         /\ boundaryPorts' = SelectSeq(boundaryPorts, LAMBDA p : p.id # id)
         /\ wires' = SelectSeq(wires, LAMBDA w : ~Touches(w, BOUNDARY, id))
         /\ UNCHANGED <<atomicNodes, canvasNodes, isBoundaryActive, definitions,
                        gesture, modal>>
  ]_vars

\* a boundary port was just deleted next to another one that keeps its wire
C17_Witness ==
  /\ lastOp.op = "deleteBoundaryPort"
  /\ Len(boundaryPorts) > 0
  /\ \A b \in DOMAIN boundaryPorts : IsOccupied(wires, BOUNDARY, boundaryPorts[b].id)
  /\ \E e \in AllPortEnds : ~IsOccupied(wires, e[1], e[2])

\* the preconditions of expandDefinitionInstance(id) fail
ExpansionUnavailable(id) ==
  \/ InstanceOf(id) = 0
  \/ ~canvasNodes[InstanceOf(id)].isDefinitionInstance
  \/ DefinitionOf(canvasNodes[InstanceOf(id)].definitionId) = 0
  \/ id \notin nodePhysicsData

\* C18: expandDefinitionInstance(id) leaves canvas nodes, wires and
\* definitions unchanged when id is not a canvas node flagged as a definition
\* instance, when its definition is not in the library, or when no pose is
\* recorded for it.
C18_FailedExpansionNoChange ==
  [][(lastOp'.op = "expand" /\ ExpansionUnavailable(lastOp'.arg))
       => UNCHANGED <<canvasNodes, wires, definitions>>]_vars

\* an expansion was just requested for a placed definition instance that has
\* no recorded pose
C18_Witness ==
  /\ lastOp.op = "expand"
  /\ lastOp.note = "noPhysicsData"
  /\ ExpansionUnavailable(lastOp.arg)
  /\ InstanceOf(lastOp.arg) # 0

\* the instance ids an expansion step hands out
NewInstanceIds == nextInst..(nextInst' - 1)

OnCanvasAfter(id) == \E c \in DOMAIN canvasNodes' : canvasNodes'[c].instanceId = id

\* C19: an expansion completes when the atomic node of an internal node is
\* no longer in the library (or the internal node is a definition instance):
\* every other internal node gets a new canvas node, the skipped one gets
\* none, and no wire ends on a new instance id that has no canvas node.
C19_SkippedNodeUnresolved ==
  [][Expanded =>
       /\ \A j \in DOMAIN ExpandedDef.internalNodes :
            (AtomicDefOf(ExpandedDef.internalNodes[j].definitionId) # 0)
              <=> OnCanvasAfter(NewInstanceId(ExpandedDef,
                                  ExpandedDef.internalNodes[j].instanceId))
       /\ \A i \in DOMAIN wires', id \in NewInstanceIds :
            (wires'[i].sourceNodeId = id \/ wires'[i].targetNodeId = id)
              => OnCanvasAfter(id)
  ]_vars

\* what an import leaves in a collection for the property read from the file
Taken(property) == IF property.kind = "array" THEN property.value ELSE << >>

\* C20: an import of a file that parses to a workspace value sets each of
\* atomicNodes, canvasNodes, wires and definitions from its own property,
\* to the array in the file or to the empty sequence when the property is
\* absent or not an array, whatever the other properties are; the title
\* becomes "Untitled" when the title property is absent or not a string;
\* and every import, of any file, ends in a handled outcome.
C20_ImportFieldsIndependent ==
  [][lastOp'.op = "import" =>
       /\ lastOp'.note \in { "imported", "caught", "readError" }
       /\ lastOp'.arg.content = "value" =>
            /\ lastOp'.note = "imported"
            /\ atomicNodes' = Taken(lastOp'.arg.atomicNodes)
            /\ canvasNodes' = Taken(lastOp'.arg.canvasNodes)
            /\ wires' = Taken(lastOp'.arg.wires)
            /\ definitions' = Taken(lastOp'.arg.definitions)
            /\ (lastOp'.arg.title.kind # "string" => title' = "Untitled")
  ]_vars

\* a file without the wires key and without a title, and with definitions
\* that are not an array, was just imported: its atomic nodes and canvas
\* nodes are in place
C20_Witness ==
  /\ lastOp.op = "import"
  /\ lastOp.arg.content = "value"
  /\ lastOp.arg.wires.kind = "absent"
  /\ lastOp.arg.title.kind = "absent"
  /\ lastOp.arg.definitions.kind = "other"
  /\ Len(atomicNodes) > 0
  /\ Len(canvasNodes) > 0
  /\ wires = << >>
  /\ title = "Untitled"

\* a step that is a mouse-up of a wire gesture with no port under the pointer
ReleasedNowhere == handleGlobalMouseUp(Null)

\* C21: a mouse-up that ends a wire gesture with no port under the pointer
\* (finishWire(null, null)) sets the drawing state to null and leaves wires,
\* canvas nodes, boundary ports and definitions unchanged.
C21_CancelDiscardsGesture ==
  [][ReleasedNowhere =>
       /\ drawingWire' = Null
       /\ UNCHANGED <<wires, canvasNodes, boundaryPorts, definitions>>]_vars

\* the port under the pointer is the port the gesture started on
GestureOnItsSource(target) ==
  /\ target[1].nodeId = drawingWire[1].sourceNodeId
  /\ target[1].portIndex = drawingWire[1].sourcePortIndex

FinishWireTargets ==
  { target \in MouseUpTargets : target = Null \/ target[1].nodeId # BOUNDARY }

\* C23: a finishWire call made while the latch of an earlier call is set
\* adds no wire and leaves the drawing state as it is; no step adds more
\* than one wire, and a gesture that goes on after its wire was added has an
\* occupied source port, which refuses a second wire; and whenever the latch
\* is set it is released later.
C23_LatchNoOpAndReleased ==
  /\ [][\A target \in FinishWireTargets :
          (handleGlobalMouseUp(target) /\ isFinishingWire)
          => /\ wires' = wires
             /\ drawingWire' = drawingWire]_vars
  /\ [][/\ Len(wires') <= Len(wires) + 1
        /\ (Len(wires') > Len(wires) /\ drawingWire' # Null)
             => IsOccupied(wires', drawingWire'[1].sourceNodeId,
                           drawingWire'[1].sourcePortIndex)]_vars
  /\ (isFinishingWire ~> ~isFinishingWire)

\* a mouse-up was just ignored by the latch, in the middle of a new gesture
C23_Witness ==
  /\ lastOp.op = "mouseUp"
  /\ lastOp.note = "latched"
  /\ isFinishingWire
  /\ drawingWire # Null

\* the node or boundary port the gesture in progress started on is still there
GestureSourceExists ==
  IF drawingWire[1].sourceNodeId = BOUNDARY
  THEN drawingWire[1].sourcePortIndex \in BoundaryPortIds
  ELSE InstanceOf(drawingWire[1].sourceNodeId) # 0

\* C24: a mouse-up that ends a wire gesture adds a wire only if the canvas
\* node or boundary port the gesture started on still exists, whatever was
\* deleted while the gesture was in progress.
C24_NoWireOnDeletedSource ==
  [][\A target \in MouseUpTargets :
       (handleGlobalMouseUp(target) /\ Len(wires') > Len(wires))
       => GestureSourceExists]_vars

\* the number of wires of ws with an end on port p of n
WireCount(ws, n, p) == Cardinality(WiresOn(ws, n, p))

\* C25: in every definition of the library, each external port is the
\* BOUNDARY endpoint of exactly one internal wire, and every port of every
\* internal node that is an instance of an atomic node is the endpoint of
\* exactly one internal wire.
C25_DefinitionWellFormed ==
  \A d \in DOMAIN definitions :
    /\ \A k \in DOMAIN definitions[d].externalPorts :
         WireCount(definitions[d].internalWires, BOUNDARY,
                   definitions[d].externalPorts[k].id) = 1
    /\ \A j \in DOMAIN definitions[d].internalNodes :
       \A a \in DOMAIN atomicNodes :
         atomicNodes[a].id = definitions[d].internalNodes[j].definitionId =>
           \A p \in 0..(TotalPorts(atomicNodes[a]) - 1) :
             WireCount(definitions[d].internalWires,
                       definitions[d].internalNodes[j].instanceId, p) = 1

\* a definition with an internal two-port node and two external ports was
\* just made
C25_Witness ==
  /\ lastOp.op = "addDefinition"
  /\ lastOp.note = ""
  /\ \E d \in DOMAIN definitions :
       /\ Len(definitions[d].externalPorts) = 2
       /\ \E j \in DOMAIN definitions[d].internalNodes :
          \E a \in DOMAIN atomicNodes :
            /\ atomicNodes[a].id = definitions[d].internalNodes[j].definitionId
            /\ TotalPorts(atomicNodes[a]) = 2

\* C26 -- No dangling wires: in every reachable state each wire end that names
\* a node names a node instance that is on the canvas, and each wire end on
\* BOUNDARY names a boundary port of the session's port set.
EndExists(e) ==
  IF e[1] = BOUNDARY THEN e[2] \in BoundaryPortIds ELSE InstanceOf(e[1]) # 0

C26_NoDanglingWires == \A e \in WireEnds(wires) : EndExists(e)

\* C27 -- While the boundary session is inactive there is no boundary port and
\* no wire has a BOUNDARY end; addBoundaryPort adds nothing while inactive, and
\* a session that is opened starts with no ports.
NoBoundaryEnd == \A e \in WireEnds(wires) : e[1] # BOUNDARY

C27_InactiveSessionEmpty ==
  /\ [](~isBoundaryActive => (boundaryPorts = << >> /\ NoBoundaryEnd))
  /\ [][(~isBoundaryActive /\ isBoundaryActive') => boundaryPorts' = << >>]_vars
  /\ [][~isBoundaryActive => Len(boundaryPorts') <= Len(boundaryPorts)]_vars

\* C28 -- A completed expansion has no effect outside the expanded instance:
\* every other canvas node is on the canvas unchanged afterwards, every wire
\* with no end on the instance is in wires unchanged afterwards, and what is
\* added are nodes and wires with newly generated ids.
Bystander(w) == w.sourceNodeId # ExpandedInst /\ w.targetNodeId # ExpandedInst

C28_ExpansionFrame ==
  [][Expanded =>
       /\ \A c \in DOMAIN canvasNodes :
            canvasNodes[c].instanceId # ExpandedInst
            => \E d \in DOMAIN canvasNodes' : canvasNodes'[d] = canvasNodes[c]
       /\ \A i \in DOMAIN wires :
            Bystander(wires[i]) => \E j \in DOMAIN wires' : wires'[j] = wires[i]
       /\ \A d \in DOMAIN canvasNodes' :
            \/ \E c \in DOMAIN canvasNodes : canvasNodes[c] = canvasNodes'[d]
            \/ canvasNodes'[d].instanceId \in NewInstanceIds
       /\ \A j \in DOMAIN wires' :
            \/ \E i \in DOMAIN wires : wires[i].id = wires'[j].id
            \/ wires'[j].id \in nextWire..(nextWire' - 1)]_vars

\* C29 -- Extraction removes only what was captured: a canvas node that is not
\* among the candidate nodes of the validated snapshot is still on the canvas
\* after addDefinition, and so are the wires on it.
Captured(id) ==
  \E k \in DOMAIN Candidate.nodes : Candidate.nodes[k].instanceId = id

C29_ExtractionKeepsTheRest ==
  [][Defined =>
       \A c \in DOMAIN canvasNodes :
         ~Captured(canvasNodes[c].instanceId)
         => /\ \E d \in DOMAIN canvasNodes' : canvasNodes'[d] = canvasNodes[c]
            /\ \A i \in DOMAIN wires :
                 (\/ wires[i].sourceNodeId = canvasNodes[c].instanceId
                  \/ wires[i].targetNodeId = canvasNodes[c].instanceId)
                 => \E j \in DOMAIN wires' : wires'[j] = wires[i]]_vars

\* C30 -- Referential integrity of node instances: in every reachable state
\* each canvas node references a definition that exists, an atomic node of
\* the library when isDefinitionInstance is not set and a definition of the
\* library when it is set; a step that removes an atomic node or a
\* definition from its library leaves no instance of it on the canvas.
References(n) ==
  IF n.isDefinitionInstance
  THEN DefinitionOf(n.definitionId) # 0
  ELSE AtomicDefOf(n.definitionId) # 0

C30_InstancesReferenceDefinitions ==
  \A c \in DOMAIN canvasNodes : References(canvasNodes[c])
====
